---------------------------- MODULE Spec2Model ----------------------------
(***************************************************************************)
(* Reed-Solomon codec over a prime field GF(p) (package rsprime):          *)
(* pfint.py (field elements), mapper.py (alphabet mapper), rscoder.py      *)
(* (RSCoder: construction, encode, verify, decode).  The Polynomial class  *)
(* imported by rscoder.py is not among the sources; its operators are      *)
(* written from section 4.2 of the specification.                          *)
(*                                                                         *)
(* Five specifications share the definitions: Spec (a codec session),      *)
(* SpecField (field arithmetic on its own), SpecMapper (the alphabet       *)
(* mapper on its own), SpecBM (Berlekamp-Massey iteration by iteration)    *)
(* and SpecCache (two threads sharing the class attributes of PFint).      *)
(*                                                                         *)
(* Conventions.  A Python str is a sequence of one-character strings.  A   *)
(* polynomial is its coefficient sequence, highest degree first.  The      *)
(* outcome of a call that may raise is a record [exc, val]: exc = "ok"     *)
(* and the returned value, or the name of the exception raised.            *)
(***************************************************************************)
EXTENDS Integers, Sequences, FiniteSets, TLC

VARIABLES
    pc,          \* what the session has done last
    params,      \* the arguments <<b, n, k>> handed to RSCoder
    coder,       \* the outcome of RSCoder(b, n, k)
    message,     \* the str handed to encode
    encNostrip,  \* encode's nostrip option
    code,        \* the outcome of encode
    flips,       \* the positions (1 = leading symbol) corrupted in transit
    word,        \* the received str
    verdict,     \* the outcome of verify(word)
    decNostrip,  \* decode's nostrip option
    decoded,     \* the outcome of decode(word)
    fop,         \* the field operation applied
    fargs,       \* its operands: p, a, other, and whether other is a PFint
    fres,        \* its outcome
    threads,     \* per thread: position in PFint.__new__ / inverse, and locals
    PFint_cache,     \* the class attribute PFint.cache: p -> the n cached
    PFint_invtable,  \* the class attribute PFint.invtable: p -> inverse table
    history,     \* what happened to the tables: assignments, late writes
    mapIn,       \* the str handed to Mapper.decode
    mapDecoded,  \* the outcome of Mapper.decode(mapIn)
    mapEncoded,  \* the outcome of Mapper.encode of what decode returned
    bmS,         \* the syndrome polynomial handed to _berlekamp_massey
    bmL,         \* the number of iterations of its loop completed
    bmPrev,      \* entry l - 1 of its lists (sigma, omega, tao, gamma, D, B)
    bmCur        \* entry l of its lists, the rule and the Delta that gave it

\* the variables of a codec session and of field arithmetic on its own
sessionVars == <<params, coder, message, encNostrip, code, flips, word, verdict,
                 decNostrip, decoded, fop, fargs, fres>>

\* the variables of the threads that share the class attributes of PFint
cacheVars == <<threads, PFint_cache, PFint_invtable, history>>

\* the variables of the alphabet mapper used on its own
mapperVars == <<mapIn, mapDecoded, mapEncoded>>

\* the variables of a run of _berlekamp_massey followed step by step
bmVars == <<bmS, bmL, bmPrev, bmCur>>

vars == <<pc, sessionVars, cacheVars, mapperVars, bmVars>>

(***************************************************************************)
(* Bounds of the model.                                                    *)
(***************************************************************************)
\* field orders b, and the lengths n and k handed to RSCoder, range up to MaxB
MaxB == 7
\* the symbols of the messages handed to encode are the alphabet's first MaxSym + 1
MaxSym == 1
\* plain integers handed to field arithmetic range over -MaxInt .. p + MaxInt
MaxInt == 2
\* the strs handed to the mapper on its own have up to MaxLen characters
MaxLen == 3

(***************************************************************************)
(* Outcomes.                                                               *)
(***************************************************************************)
Ok(v) == [exc |-> "ok", val |-> v]

Raise(e) == [exc |-> e, val |-> <<>>]

IsOk(r) == r.exc = "ok"

\* Python's None: the entry of zero in the inverse table, and what findgen
\* returns when its loop finds nothing.  No field value.
None == -1

(***************************************************************************)
(* Sequence helpers (Python built-ins).                                    *)
(***************************************************************************)
\* reversed(s)
Reversed(s) == [i \in 1..Len(s) |-> s[Len(s) + 1 - i]]

\* (x,) * w
Repeat(x, w) == [i \in 1..w |-> x]

\* s[:-m] for m >= 1
DropLast(s, m) == IF Len(s) > m THEN SubSeq(s, 1, Len(s) - m) ELSE <<>>

\* s.rjust(w, c)
RJust(s, w, c) == IF Len(s) >= w THEN s ELSE Repeat(c, w - Len(s)) \o s

\* s.lstrip(c)
RECURSIVE LStrip(_, _)
LStrip(s, c) == IF s # <<>> /\ Head(s) = c THEN LStrip(Tail(s), c) ELSE s

\* pow(g, e, x) for e >= 0
RECURSIVE powmod(_, _, _)
powmod(g, e, x) == IF e = 0 THEN 1 % x ELSE (g * powmod(g, e - 1, x)) % x

(***************************************************************************)
(* pfint.py                                                                *)
(***************************************************************************)
\* all(n % i for i in range(i, int(math.sqrt(n)) + 1, 2)): the range ends
\* before the first i with i * i > n
RECURSIVE TrialDivision(_, _)
TrialDivision(n, i) ==
    IF i * i > n THEN TRUE
    ELSE IF n % i = 0 THEN FALSE
    ELSE TrialDivision(n, i + 2)

is_prime(n) ==
    IF n < 2 \/ (n % 2 = 0 /\ n > 2) THEN FALSE ELSE TrialDivision(n, 3)

\* PFint.invtable[p], 1-indexed: entry x + 1 is the inverse of x, None for 0
invtable(p) == [i \in 1..p |-> IF i = 1 THEN None ELSE powmod(i - 1, p - 2, p)]

\* PFint(p) and PFint(p, None) (lines 25-29): no element but the class
\* PF<p>int.  It is no PFint instance and no integer; Python 2 orders it above
\* every integer, so that PFint(p, <class>) fails the range check of line 37
\* (n >= p), as this value fails it (n < 0).
PFint_type == -2

\* PFint.__new__ mutated: the upper end of the range check is off by one
PFint_new_offbyone(p, n) ==
    IF ~is_prime(p) THEN Raise("ValueError")
    ELSE IF n > p \/ n < 0 THEN Raise("ValueError")
    ELSE Ok(n)

\* PFint(p, n) for n not None: the element n of GF(p); the cache returns what
\* was built before
PFint_new(p, n) ==
    IF ~is_prime(p) THEN Raise("ValueError")
    ELSE IF n >= p \/ n < 0 THEN Raise("ValueError")
    ELSE Ok(n)

\* the coercion of the right operand: a PFint is taken as it is, anything
\* else goes through PFint(self.p, other)
Coerce(p, other, isPF) ==
    IF isPF /\ other # PFint_type THEN Ok(other) ELSE PFint_new(p, other)

\* PFint.inverse(): PFint(self.p, PFint.invtable[self.p][self]); the entry of
\* zero is None, for which PFint returns the class and raises nothing
PFint_inverse(p, a) ==
    LET v == invtable(p)[a + 1]
    IN  IF v = None THEN Ok(PFint_type) ELSE PFint_new(p, v)

PFint_add(p, a, other, isPF) ==
    LET o == Coerce(p, other, isPF)
    IN  IF ~IsOk(o) THEN o ELSE PFint_new(p, (a + o.val) % p)

PFint_sub(p, a, other, isPF) ==
    LET o == Coerce(p, other, isPF)
    IN  IF ~IsOk(o) THEN o ELSE PFint_new(p, (a - o.val) % p)

\* PFint.__rsub__ mutated: the operands are not reversed
PFint_rsub_unreversed(p, a, other, isPF) ==
    LET o == Coerce(p, other, isPF)
    IN  IF ~IsOk(o) THEN o ELSE PFint_new(p, (a - o.val) % p)

PFint_rsub(p, a, other, isPF) ==
    LET o == Coerce(p, other, isPF)
    IN  IF ~IsOk(o) THEN o ELSE PFint_new(p, (o.val - a) % p)

PFint_neg(p, a) == PFint_new(p, (p - a) % p)

PFint_mul(p, a, other, isPF) ==
    LET o == Coerce(p, other, isPF)
    IN  IF ~IsOk(o) THEN o ELSE PFint_new(p, (a * o.val) % p)

PFint_pow(p, a, power) ==
    IF power < 0
    THEN LET b == PFint_new(p, powmod(a, -power, p))
         IN  IF ~IsOk(b) THEN b ELSE PFint_inverse(p, b.val)
    ELSE PFint_new(p, powmod(a, power, p))

\* self * other.inverse(): the inverse of zero, a class, is coerced by __mul__
PFint_div(p, a, other, isPF) ==
    LET o == Coerce(p, other, isPF)
    IN  IF ~IsOk(o) THEN o
        ELSE LET i == PFint_inverse(p, o.val)
             IN  IF ~IsOk(i) THEN i ELSE PFint_mul(p, a, i.val, TRUE)

\* self.inverse() * other: for the inverse of zero, a class, the product is
\* other.__rmul__(<class>), that is __mul__, which coerces the class
PFint_rdiv(p, a, other, isPF) ==
    LET o == Coerce(p, other, isPF)
    IN  IF ~IsOk(o) THEN o
        ELSE LET i == PFint_inverse(p, a)
             IN  IF ~IsOk(i) THEN i
                 ELSE IF i.val = PFint_type THEN PFint_mul(p, o.val, i.val, TRUE)
                 ELSE PFint_mul(p, i.val, o.val, TRUE)

\* The same methods between elements of one field GF(p), p prime, as the
\* codec applies them: the operands are PFint already, PFint(self.p, ...)
\* finds p prime and the reduced value in range, and the value is returned.
\* The inverse is the table entry, None for zero.
FAdd(p, a, b) == (a + b) % p
FSub(p, a, b) == (a - b) % p
FNeg(p, a) == (p - a) % p
FMul(p, a, b) == (a * b) % p
FInv(p, a) == invtable(p)[a + 1]
FPow(p, a, e) == IF e < 0 THEN FInv(p, powmod(a, -e, p)) ELSE powmod(a, e, p)
FDiv(p, a, b) == FMul(p, a, FInv(p, b))

(***************************************************************************)
(* mapper.py, and the default mapper of rscoder.py                         *)
(***************************************************************************)
mapper_default_alphabet ==
    <<"0", "1", "2", "3", "4", "5", "6", "7", "8", "9", "a", "b", "c",
    "d", "e", "f", "g", "h", "i", "j", "k", "m", "n", "o", "p", "q", "r",
    "s", "t", "u", "v", "w", "x", "y", "z", "A", "B", "C", "D", "E", "F",
    "G", "H", "J", "K", "L", "M", "N", "P", "Q", "R", "S", "T", "U", "V",
    "W", "X", "Y", "Z">>

mapper_default_equivs == << <<"O", "0">>, <<"I", "1">>, <<"l", "1">> >>

\* Mapper.__init__: table_n2c, index -> character (1-indexed: entry i + 1)
table_n2c == mapper_default_alphabet

\* Mapper.__init__: the characters table_c2n has an entry for
c2n_keys ==
    {mapper_default_alphabet[i] : i \in 1..Len(mapper_default_alphabet)}
        \cup {mapper_default_equivs[e][1] : e \in 1..Len(mapper_default_equivs)}

\* the index of an alphabet character
AlphaIndex(c) ==
    (CHOOSE i \in 1..Len(mapper_default_alphabet) : mapper_default_alphabet[i] = c) - 1

\* Mapper.__init__: table_c2n, character -> index, an equivalent character
\* taking the index of its target
table_c2n ==
    [c \in c2n_keys |->
        IF \E e \in 1..Len(mapper_default_equivs) : mapper_default_equivs[e][1] = c
        THEN AlphaIndex(mapper_default_equivs[
                 CHOOSE e \in 1..Len(mapper_default_equivs) :
                     mapper_default_equivs[e][1] = c][2])
        ELSE AlphaIndex(c)]

\* Mapper._conv(table_c2n, c) for a one-character str c
conv_c2n(c) == IF c \in c2n_keys THEN table_c2n[c] ELSE -1

\* Mapper.decode(data) for a str: kind says what came back, a bare integer
\* (a str of length 1) or a list; the empty str fails on r[0]
Mapper_decode(data) ==
    IF Len(data) = 1 THEN [exc |-> "ok", kind |-> "int", val |-> <<conv_c2n(data[1])>>]
    ELSE IF Len(data) = 0 THEN [exc |-> "IndexError", kind |-> "list", val |-> <<>>]
    ELSE [exc |-> "ok", kind |-> "list",
          val |-> [i \in 1..Len(data) |-> conv_c2n(data[i])]]

\* Mapper.encode(data) for a tuple of integers: a missing table entry is a
\* ValueError, the empty tuple fails on r[0]
Mapper_encode(data) ==
    IF \E i \in 1..Len(data) : data[i] < 0 \/ data[i] >= Len(table_n2c)
    THEN Raise("ValueError")
    ELSE IF Len(data) = 0 THEN Raise("IndexError")
    ELSE Ok([i \in 1..Len(data) |-> table_n2c[data[i] + 1]])

\* Mapper.encode(data) for an integer: its character, a str of length 1
Mapper_encode_int(data) ==
    IF data >= 0 /\ data < Len(table_n2c) THEN Ok(<<table_n2c[data + 1]>>)
    ELSE Raise("ValueError")

\* Mapper.pad(s, w)
Mapper_pad(s, w) == RJust(s, w, table_n2c[1])

\* Mapper.strip(s)
Mapper_strip(s) == LStrip(s, table_n2c[1])

\* Polynomial(self.PFint(x) for x in self.mapper.decode(s)): the coefficients
\* before normalisation; iterating a bare integer is a TypeError, PFint
\* rejects an index outside [0, p)
FieldSeq(p, s) ==
    LET d == Mapper_decode(s)
    IN  IF ~IsOk(d) THEN Raise(d.exc)
        ELSE IF d.kind = "int" THEN Raise("TypeError")
        ELSE IF \E i \in 1..Len(d.val) : ~IsOk(PFint_new(p, d.val[i]))
        THEN Raise("ValueError")
        ELSE Ok(d.val)

(***************************************************************************)
(* Polynomial over GF(p) (specification, sections 3.2 and 4.2)             *)
(***************************************************************************)
\* normalisation: leading zeros are stripped, the zero polynomial is <<0>>
RECURSIVE PolyNorm(_)
PolyNorm(c) ==
    IF c = <<>> THEN <<0>>
    ELSE IF Head(c) = 0 THEN PolyNorm(Tail(c))
    ELSE c

ZeroPoly == <<0>>

degree(u) == Len(u) - 1

\* the coefficient of x^i, zero above the degree
get_coefficient(u, i) == IF i > degree(u) THEN 0 ELSE u[Len(u) - i]

\* addition, aligned on the constant terms
PolyAdd(p, u, v) ==
    LET w == IF Len(u) > Len(v) THEN Len(u) ELSE Len(v)
    IN  PolyNorm([i \in 1..w |->
            FAdd(p, get_coefficient(u, w - i), get_coefficient(v, w - i))])

PolySub(p, u, v) ==
    LET w == IF Len(u) > Len(v) THEN Len(u) ELSE Len(v)
    IN  PolyNorm([i \in 1..w |->
            FSub(p, get_coefficient(u, w - i), get_coefficient(v, w - i))])

\* the sum in GF(p) of f[i] for i in lo..hi
RECURSIVE FSum(_, _, _, _)
FSum(p, f, lo, hi) ==
    IF lo > hi THEN 0 ELSE FAdd(p, f[lo], FSum(p, f, lo + 1, hi))

\* schoolbook convolution: the coefficient of x^d is the sum of u_i * v_(d - i)
PolyMul(p, u, v) ==
    LET w == degree(u) + degree(v)
        coef(d) ==
            LET lo == IF d - degree(v) > 0 THEN d - degree(v) ELSE 0
                hi == IF d < degree(u) THEN d ELSE degree(u)
            IN  FSum(p, [i \in lo..hi |->
                    FMul(p, get_coefficient(u, i), get_coefficient(v, d - i))],
                    lo, hi)
    IN  PolyNorm([i \in 1..(w + 1) |-> coef(w + 1 - i)])

\* the monomial c * x^d, not normalised
Monomial(c, d) == <<c>> \o Repeat(0, d)

\* Euclidean division: (q, r) with u = q * v + r, for v not the zero polynomial
RECURSIVE PolyDivMod(_, _, _)
PolyDivMod(p, u, v) ==
    IF degree(u) < degree(v) \/ u = ZeroPoly THEN [q |-> ZeroPoly, r |-> u]
    ELSE LET t == FDiv(p, u[1], v[1])
             d == degree(u) - degree(v)
             m == PolyNorm(Monomial(t, d))
             rest == PolyDivMod(p, PolySub(p, u, PolyMul(p, m, v)), v)
         IN  [q |-> PolyAdd(p, m, rest.q), r |-> rest.r]

PolyMod(p, u, v) == PolyDivMod(p, u, v).r

PolyFloorDiv(p, u, v) == PolyDivMod(p, u, v).q

\* Horner's method, from the highest coefficient down
RECURSIVE Horner(_, _, _, _)
Horner(p, u, z, acc) ==
    IF u = <<>> THEN acc
    ELSE Horner(p, Tail(u), z, FAdd(p, FMul(p, acc, z), Head(u)))

evaluate(p, u, z) == Horner(p, u, z, 0)

(***************************************************************************)
(* rscoder.py: findgen and RSCoder.__init__                                *)
(***************************************************************************)
\* findgen(x): the first g of range(x) whose powers g^0 .. g^(x-1) take
\* exactly x - 1 values; None when the loop ends without one
findgen(x) ==
    LET good == {g \in 0..(x - 1) :
                    Cardinality({powmod(g, e, x) : e \in 0..(x - 1)}) = x - 1}
    IN  IF good = {} THEN None ELSE CHOOSE g \in good : \A h \in good : g <= h

\* g(x) = (x - a^1)(x - a^2)...(x - a^(n-k)), built as __init__ builds it
RECURSIVE GenPoly(_, _, _)
GenPoly(p, a, m) ==
    IF m <= 0 THEN <<1>>
    ELSE PolyMul(p, GenPoly(p, a, m - 1), PolyNorm(<<1, FNeg(p, FPow(p, a, m))>>))

\* h(x) = (x + a^lo)...(x + a^hi), built as __init__ builds it
RECURSIVE HPoly(_, _, _, _)
HPoly(p, a, lo, hi) ==
    IF hi < lo THEN <<1>>
    ELSE PolyMul(p, HPoly(p, a, lo, hi - 1), PolyNorm(<<1, FPow(p, a, hi)>>))

\* RSCoder(b, n, k) with the default mapper: the codec, or the error raised
RSCoder_init(b, n, k) ==
    IF n < 0 \/ k < 0 THEN Raise("ValueError")
    ELSE IF ~(n < b) THEN Raise("ValueError")
    ELSE IF ~(k < n) THEN Raise("ValueError")
    ELSE IF ~(b <= Len(mapper_default_alphabet)) THEN Raise("ValueError")
    ELSE IF ~is_prime(b) THEN Raise("ValueError")
    ELSE LET a == PFint_new(b, findgen(b))
         IN  IF ~IsOk(a) THEN a
             ELSE Ok([b |-> b, n |-> n, k |-> k, a |-> a.val,
                      g |-> GenPoly(b, a.val, n - k),
                      h |-> HPoly(b, a.val, n - k + 1, n)])

(***************************************************************************)
(* rscoder.py: RSCoder.encode and RSCoder.verify                           *)
(***************************************************************************)
\* the codeword polynomial c = mprime - (mprime mod g) of the message
\* polynomial m
CodePoly(self, m) ==
    LET mprime == PolyMul(self.b, m, Monomial(1, self.n - self.k))
        b == PolyMod(self.b, mprime, self.g)
    IN  PolySub(self.b, mprime, b)

\* RSCoder.encode mutated: the length check forgotten, the rest as it is
RSCoder_encode_unchecked(self, msg, nostrip) ==
    LET padded == Mapper_pad(msg, self.k)
        f == FieldSeq(self.b, padded)
    IN  IF ~IsOk(f) THEN f
        ELSE LET c == CodePoly(self, PolyNorm(f.val))
                 ret == Mapper_encode(c)
             IN  IF ~IsOk(ret) THEN ret
                 ELSE IF nostrip THEN Ok(Mapper_pad(ret.val, self.n))
                 ELSE ret

\* RSCoder.encode(message, nostrip=nostrip), poly left at False
RSCoder_encode(self, msg, nostrip) ==
    LET padded == Mapper_pad(msg, self.k)
        f == FieldSeq(self.b, padded)
    IN  IF Len(padded) > self.k THEN Raise("ValueError")
        ELSE IF ~IsOk(f) THEN f
        ELSE LET c == CodePoly(self, PolyNorm(f.val))
                 ret == Mapper_encode(c)
             IN  IF ~IsOk(ret) THEN ret
                 ELSE IF nostrip THEN Ok(Mapper_pad(ret.val, self.n))
                 ELSE ret

\* RSCoder.verify mutated: the quotient is tested, not the remainder
RSCoder_verify_quotient(self, c0) ==
    LET f == FieldSeq(self.b, c0)
    IN  IF ~IsOk(f) THEN [exc |-> f.exc, val |-> FALSE]
        ELSE Ok(PolyFloorDiv(self.b, PolyNorm(f.val), self.g) = ZeroPoly)

\* RSCoder.verify(code): whether code, as a polynomial, is a multiple of g
RSCoder_verify(self, c0) ==
    LET f == FieldSeq(self.b, c0)
    IN  IF ~IsOk(f) THEN [exc |-> f.exc, val |-> FALSE]
        ELSE Ok(PolyMod(self.b, PolyNorm(f.val), self.g) = ZeroPoly)

(***************************************************************************)
(* rscoder.py: the stages of RSCoder.decode                                *)
(***************************************************************************)
\* RSCoder._syndromes(r): s[l] = r(a^l) for l = 1..n-k, s[0] = 0, as the
\* polynomial with s[l] at z^l
_syndromes(self, r) ==
    LET m == self.n - self.k
        s == [i \in 1..(m + 1) |->
                 IF i = 1 THEN 0 ELSE evaluate(self.b, r, powmod(self.a, i - 1, self.b))]
    IN  PolyNorm(Reversed(s))

\* the state of _berlekamp_massey before its first iteration (entry 0 of
\* each list)
BMInit ==
    [sigma |-> <<1>>, omega |-> <<1>>, tao |-> <<1>>, gamma |-> <<0>>,
     D |-> 0, B |-> 0, exc |-> "ok", rule |-> "", Delta |-> 0]

\* the discrepancy mutated: the coefficient of z^l is taken
BMDelta_offbyone(p, s, st, l) ==
    get_coefficient(PolyMul(p, PolyAdd(p, <<1>>, s), st.sigma), l)

\* the discrepancy of iteration l: the coefficient of z^(l+1) in (1 + s) * sigma[l]
BMDelta(p, s, st, l) ==
    get_coefficient(PolyMul(p, PolyAdd(p, <<1>>, s), st.sigma), l + 1)

\* the rule choice mutated: on 2 * D = l + 1 the test of B is inverted
BMRule_inverted(Delta, D, B, l) ==
    IF Delta = 0 \/ 2 * D > l + 1 THEN "A"
    ELSE IF Delta # 0 /\ 2 * D < l + 1 THEN "B"
    ELSE IF 2 * D = l + 1 THEN (IF B = 0 THEN "B" ELSE "A")
    ELSE "Exception"

\* the rule iteration l applies, by the if/elif chain
BMRule(Delta, D, B, l) ==
    IF Delta = 0 \/ 2 * D > l + 1 THEN "A"
    ELSE IF Delta # 0 /\ 2 * D < l + 1 THEN "B"
    ELSE IF 2 * D = l + 1 THEN (IF B = 0 THEN "A" ELSE "B")
    ELSE "Exception"

\* one iteration of the loop of _berlekamp_massey: entry l + 1 of each list
\* from entry l
BMStep(p, s, st, l) ==
    LET Delta == BMDelta(p, s, st, l)
        DZ == PolyMul(p, <<Delta>>, <<1, 0>>)
        Z == <<1, 0>>
        rule == BMRule(Delta, st.D, st.B, l)
        sigma1 == PolySub(p, st.sigma, PolyMul(p, DZ, st.tao))
        omega1 == PolySub(p, st.omega, PolyMul(p, DZ, st.gamma))
    IN  IF rule = "A"
        THEN [sigma |-> sigma1, omega |-> omega1,
              tao |-> PolyMul(p, Z, st.tao), gamma |-> PolyMul(p, Z, st.gamma),
              D |-> st.D, B |-> st.B, exc |-> "ok", rule |-> "A", Delta |-> Delta]
        ELSE IF rule = "B"
        THEN [sigma |-> sigma1, omega |-> omega1,
              tao |-> PolyFloorDiv(p, st.sigma, <<Delta>>),
              gamma |-> PolyFloorDiv(p, st.omega, <<Delta>>),
              D |-> l + 1 - st.D, B |-> 1 - st.B, exc |-> "ok", rule |-> "B",
              Delta |-> Delta]
        ELSE [st EXCEPT !.exc = "Exception", !.rule = rule, !.Delta = Delta]

\* the loop for l in xrange(lo, hi)
RECURSIVE BMLoop(_, _, _, _, _)
BMLoop(p, s, st, l, hi) ==
    IF l >= hi \/ st.exc # "ok" THEN st
    ELSE BMLoop(p, s, BMStep(p, s, st, l), l + 1, hi)

\* _berlekamp_massey mutated: the loop stops one iteration early
_berlekamp_massey_short(self, s) ==
    BMLoop(self.b, s, BMInit, 0, self.n - self.k - 1)

\* RSCoder._berlekamp_massey(s): sigma[-1] and omega[-1]
_berlekamp_massey(self, s) == BMLoop(self.b, s, BMInit, 0, self.n - self.k)

\* the last l the Chien search tries: the loop is xrange(1, self.b - 1)
ChienLast(b) == b - 2

\* RSCoder._chien_search(sigma): the loop from l on, X and j in the order of
\* insertion; a^(-l) is the class and no element when a^l is zero
RECURSIVE ChienLoop(_, _, _, _)
ChienLoop(self, sigma, l, acc) ==
    IF l > ChienLast(self.b) \/ acc.exc # "ok" THEN acc
    ELSE IF evaluate(self.b, sigma, FPow(self.b, self.a, l)) = 0
    THEN LET x == PFint_pow(self.b, self.a, -l)
         IN  IF ~IsOk(x) THEN ChienLoop(self, sigma, l + 1, [acc EXCEPT !.exc = x.exc])
             ELSE ChienLoop(self, sigma, l + 1,
                      [acc EXCEPT !.X = Append(@, x.val),
                                  !.j = Append(@, (self.b - 1) - l)])
    ELSE ChienLoop(self, sigma, l + 1, acc)

_chien_search(self, sigma) ==
    ChienLoop(self, sigma, 1, [exc |-> "ok", X |-> <<>>, j |-> <<>>])

\* the product over ji # l of (1 - X[ji] * X[l]^-1)
RECURSIVE ForneyProd(_, _, _, _)
ForneyProd(p, X, l, ji) ==
    IF ji > Len(X) THEN 1
    ELSE IF ji = l THEN ForneyProd(p, X, l, ji + 1)
    ELSE FMul(p, FSub(p, 1, FMul(p, X[ji], FInv(p, X[l]))),
              ForneyProd(p, X, l, ji + 1))

\* RSCoder._forney(omega, X): the error magnitudes.  Xl.inverse() on an entry
\* that is the class and no element is a TypeError; the inverse of a zero
\* entry or of a zero product is the class, and the arithmetic that meets it
\* raises ValueError
_forney(self, omega, X) ==
    IF \E l \in 1..Len(X) : X[l] = PFint_type THEN Raise("TypeError")
    ELSE IF \E l \in 1..Len(X) : X[l] = 0 \/ ForneyProd(self.b, X, l, 1) = 0
    THEN Raise(PFint_mul(self.b, 0, PFint_inverse(self.b, 0).val, TRUE).exc)
    ELSE Ok([l \in 1..Len(X) |->
            FMul(self.b, evaluate(self.b, omega, FInv(self.b, X[l])),
                 FInv(self.b, ForneyProd(self.b, X, l, 1)))])

\* j.index(i), 1-indexed
IndexOf(j, i) == CHOOSE x \in 1..Len(j) : j[x] = i /\ \A y \in 1..(x - 1) : j[y] # i

\* the error polynomial E: Y[j.index(i)] at x^i for i in j, zero elsewhere,
\* for i in xrange(self.b - 1)
ErrorPoly(self, Y, j) ==
    LET Elist == [i \in 1..(self.b - 1) |->
                     IF \E x \in 1..Len(j) : j[x] = i - 1
                     THEN Y[IndexOf(j, i - 1)] ELSE 0]
    IN  PolyNorm(Reversed(Elist))

\* RSCoder.decode(r, nostrip=nostrip)
RSCoder_decode(self, r0, nostrip) ==
    LET f == FieldSeq(self.b, r0)
        m == self.n - self.k
    IN  IF ~IsOk(f) THEN f
        ELSE IF RSCoder_verify(self, r0).val
        THEN (IF nostrip THEN Ok(DropLast(r0, m)) ELSE Ok(Mapper_strip(DropLast(r0, m))))
        ELSE LET r == PolyNorm(f.val)
                 sz == _syndromes(self, r)
                 bm == _berlekamp_massey(self, sz)
             IN  IF bm.exc # "ok" THEN Raise(bm.exc)
                 ELSE LET ch == _chien_search(self, bm.sigma)
                      IN  IF ch.exc # "ok" THEN Raise(ch.exc)
                          ELSE LET Y == _forney(self, bm.omega, ch.X)
                               IN  IF ~IsOk(Y) THEN Y
                                   ELSE LET E == ErrorPoly(self, Y.val, ch.j)
                                            c == PolySub(self.b, r, E)
                                            ret == Mapper_encode(DropLast(c, m))
                                        IN  IF ~IsOk(ret) THEN ret
                                            ELSE IF nostrip
                                            THEN Ok(Mapper_pad(ret.val, self.k))
                                            ELSE ret

(***************************************************************************)
(* The session: a codec is constructed, a message encoded, the codeword    *)
(* corrupted in transit, the received word verified and decoded.           *)
(***************************************************************************)
Unset == [exc |-> "unset", val |-> <<>>]

\* the threads that use PFint at the same time
Threads == {1, 2}

UnsetBool == [exc |-> "unset", val |-> FALSE]

\* the character of the field value v
Sym(v) == mapper_default_alphabet[v + 1]

\* the strs of length 0..len over the first MaxSym + 1 characters
Messages(len) == UNION {[1..l -> {Sym(v) : v \in 0..MaxSym}] : l \in 0..len}

\* s = (n - k) // 2
CorrectionPower(self) == (self.n - self.k) \div 2

\* the word with the symbols at the positions S replaced by the values v
Replaced(w, S, v) == [i \in 1..Len(w) |-> IF i \in S THEN Sym(v[i]) ELSE w[i]]

Init ==
    /\ pc = "start"
    /\ params = <<0, 0, 0>>
    /\ coder = Unset
    /\ message = <<>>
    /\ encNostrip = FALSE
    /\ code = Unset
    /\ flips = {}
    /\ word = <<>>
    /\ verdict = UnsetBool
    /\ decNostrip = FALSE
    /\ decoded = Unset
    /\ fop = ""
    /\ fargs = <<0, 0, 0, FALSE>>
    /\ fres = Unset
    /\ threads = [t \in Threads |-> [at |-> "idle", p |-> 0, n |-> 0,
                                     saw |-> "nothing", got |-> Unset]]
    /\ PFint_cache = <<>>
    /\ PFint_invtable = <<>>
    /\ history = [assigned |-> 0, rewritten |-> FALSE]
    /\ mapIn = <<>>
    /\ mapDecoded = [exc |-> "unset", kind |-> "list", val |-> <<>>]
    /\ mapEncoded = Unset
    /\ bmS = ZeroPoly
    /\ bmL = 0
    /\ bmPrev = BMInit
    /\ bmCur = BMInit

\* coder = RSCoder(b, n, k)
New(b, n, k) ==
    /\ pc = "start"
    /\ params' = <<b, n, k>>
    /\ coder' = RSCoder_init(b, n, k)
    /\ pc' = "constructed"
    /\ UNCHANGED <<message, encNostrip, code, flips, word, verdict, decNostrip,
                   decoded, fop, fargs, fres, cacheVars, mapperVars, bmVars>>

\* code = coder.encode(m, nostrip=ns)
Encode(m, ns) ==
    /\ pc = "constructed"
    /\ IsOk(coder)
    /\ message' = m
    /\ encNostrip' = ns
    /\ code' = RSCoder_encode(coder.val, m, ns)
    /\ pc' = "encoded"
    /\ UNCHANGED <<params, coder, flips, word, verdict, decNostrip, decoded,
                   fop, fargs, fres, cacheVars, mapperVars, bmVars>>

\* the channel: the symbols at the positions S of an n-symbol codeword, at
\* most s of them, are replaced by other field values (S empty: the word
\* arrives as encoded, whatever its length)
Corrupt(S) ==
    /\ pc = "encoded"
    /\ IsOk(code)
    /\ S # {} => encNostrip
    /\ Cardinality(S) <= CorrectionPower(coder.val)
    /\ \E v \in [S -> 0..(coder.val.b - 1)] :
          /\ \A i \in S : Sym(v[i]) # code.val[i]
          /\ word' = Replaced(code.val, S, v)
    /\ flips' = S
    /\ pc' = "received"
    /\ UNCHANGED <<params, coder, message, encNostrip, code, verdict, decNostrip,
                   decoded, fop, fargs, fres, cacheVars, mapperVars, bmVars>>

\* one symbol of an n-symbol codeword is changed to another field value
\* (test.py, test_two), whatever the correction power
Mutate(i, x) ==
    /\ pc = "encoded"
    /\ IsOk(code)
    /\ encNostrip
    /\ Sym(x) # code.val[i]
    /\ word' = Replaced(code.val, {i}, [j \in {i} |-> x])
    /\ flips' = {i}
    /\ pc' = "received"
    /\ UNCHANGED <<params, coder, message, encNostrip, code, verdict, decNostrip,
                   decoded, fop, fargs, fres, cacheVars, mapperVars, bmVars>>

\* verdict = coder.verify(word)
Verify ==
    /\ pc = "received"
    /\ verdict' = RSCoder_verify(coder.val, word)
    /\ pc' = "verified"
    /\ UNCHANGED <<params, coder, message, encNostrip, code, flips, word,
                   decNostrip, decoded, fop, fargs, fres, cacheVars, mapperVars, bmVars>>

\* decoded = coder.decode(word, nostrip=ns)
Decode(ns) ==
    /\ pc = "verified"
    /\ decNostrip' = ns
    /\ decoded' = RSCoder_decode(coder.val, word, ns)
    /\ pc' = "decoded"
    /\ UNCHANGED <<params, coder, message, encNostrip, code, flips, word, verdict,
                   fop, fargs, fres, cacheVars, mapperVars, bmVars>>

Next ==
    \/ \E b \in 0..MaxB, n \in -1..MaxB, k \in -1..MaxB : New(b, n, k)
    \/ /\ pc = "constructed" /\ IsOk(coder)
       /\ \E m \in Messages(coder.val.k + 1), ns \in BOOLEAN : Encode(m, ns)
    \/ /\ pc = "encoded" /\ IsOk(code)
       /\ \E S \in SUBSET (1..Len(code.val)) : Corrupt(S)
    \/ /\ pc = "encoded" /\ IsOk(code)
       /\ \E i \in 1..Len(code.val), x \in 0..(coder.val.b - 1) : Mutate(i, x)
    \/ Verify
    \/ \E ns \in BOOLEAN : Decode(ns)

Spec == Init /\ [][Next]_vars

(***************************************************************************)
(* Field arithmetic on its own: an element a of GF(p) and a right operand, *)
(* a PFint of the same field or a plain integer.                           *)
(***************************************************************************)
BinaryOps == {"add", "sub", "rsub", "mul", "div", "rdiv"}

\* the method of PFint each operator runs (__radd__ is __add__, __rmul__ is
\* __mul__)
Binary(op, p, a, other, isPF) ==
    CASE op = "add" -> PFint_add(p, a, other, isPF)
      [] op = "sub" -> PFint_sub(p, a, other, isPF)
      [] op = "rsub" -> PFint_rsub(p, a, other, isPF)
      [] op = "mul" -> PFint_mul(p, a, other, isPF)
      [] op = "div" -> PFint_div(p, a, other, isPF)
      [] op = "rdiv" -> PFint_rdiv(p, a, other, isPF)

\* PFint(p, n), explicit construction
FieldNew(p, n) ==
    /\ pc = "start"
    /\ fop' = "new"
    /\ fargs' = <<p, n, 0, FALSE>>
    /\ fres' = PFint_new(p, n)
    /\ pc' = "field"
    /\ UNCHANGED <<params, coder, message, encNostrip, code, flips, word, verdict,
                   decNostrip, decoded, cacheVars, mapperVars, bmVars>>

\* a <op> other, for a = PFint(p, a) and other a PFint of GF(p) or an integer
FieldBinary(op, p, a, other, isPF) ==
    /\ pc = "start"
    /\ IsOk(PFint_new(p, a))
    /\ isPF => IsOk(PFint_new(p, other))
    /\ fop' = op
    /\ fargs' = <<p, a, other, isPF>>
    /\ fres' = Binary(op, p, a, other, isPF)
    /\ pc' = "field"
    /\ UNCHANGED <<params, coder, message, encNostrip, code, flips, word, verdict,
                   decNostrip, decoded, cacheVars, mapperVars, bmVars>>

\* a.inverse()
FieldInverse(p, a) ==
    /\ pc = "start"
    /\ IsOk(PFint_new(p, a))
    /\ fop' = "inverse"
    /\ fargs' = <<p, a, 0, FALSE>>
    /\ fres' = PFint_inverse(p, a)
    /\ pc' = "field"
    /\ UNCHANGED <<params, coder, message, encNostrip, code, flips, word, verdict,
                   decNostrip, decoded, cacheVars, mapperVars, bmVars>>

\* -a
FieldNeg(p, a) ==
    /\ pc = "start"
    /\ IsOk(PFint_new(p, a))
    /\ fop' = "neg"
    /\ fargs' = <<p, a, 0, FALSE>>
    /\ fres' = PFint_neg(p, a)
    /\ pc' = "field"
    /\ UNCHANGED <<params, coder, message, encNostrip, code, flips, word, verdict,
                   decNostrip, decoded, cacheVars, mapperVars, bmVars>>

\* a ** e for a plain integer e
FieldPow(p, a, e) ==
    /\ pc = "start"
    /\ IsOk(PFint_new(p, a))
    /\ fop' = "pow"
    /\ fargs' = <<p, a, e, FALSE>>
    /\ fres' = PFint_pow(p, a, e)
    /\ pc' = "field"
    /\ UNCHANGED <<params, coder, message, encNostrip, code, flips, word, verdict,
                   decNostrip, decoded, cacheVars, mapperVars, bmVars>>

\* the plain integers tried as operands of arithmetic in GF(p)
Ints(p) == (-MaxInt)..(p - 1 + MaxInt)

NextField ==
    \/ \E p \in 0..MaxB : \E n \in Ints(p) : FieldNew(p, n)
    \/ \E op \in BinaryOps, p \in 0..MaxB, a \in 0..MaxB, isPF \in BOOLEAN :
          \E other \in Ints(p) : FieldBinary(op, p, a, other, isPF)
    \/ \E p \in 0..MaxB, a \in 0..MaxB : FieldInverse(p, a)
    \/ \E p \in 0..MaxB, a \in 0..MaxB : FieldNeg(p, a)
    \/ \E p \in 0..MaxB, a \in 0..MaxB : \E e \in Ints(p) : FieldPow(p, a, e)

SpecField == Init /\ [][NextField]_vars

(***************************************************************************)
(* PFint.cache and PFint.invtable are class attributes, shared by every     *)
(* thread of the process.  Two threads each run x = PFint(p, n) and then    *)
(* x.inverse() for a prime p no element of which was built before; the      *)
(* interpreter may switch threads between any two statements of             *)
(* PFint.__new__ (pfint.py lines 34-51) and of inverse (line 104).  No      *)
(* statement of pfint.py takes a lock.                                      *)
(***************************************************************************)
\* the dict d with d[k] = v
DictSet(d, k, v) == [q \in DOMAIN d \cup {k} |-> IF q = k THEN v ELSE d[q]]

\* the inverse table for p holds None at its entry of zero
TableComplete(tab) == tab[1] = None

\* the state of PFint.invtable[p] as a reader finds it
TableState(p) ==
    IF p \notin DOMAIN PFint_invtable THEN "missing"
    ELSE IF TableComplete(PFint_invtable[p]) THEN "complete"
    ELSE "partial"

\* both threads are handed the same prime p, not seen before, and a value each
Spawn(p, n) ==
    /\ pc = "start"
    /\ threads' = [t \in Threads |-> [threads[t] EXCEPT !.at = "L34", !.p = p,
                                                         !.n = n[t]]]
    /\ pc' = "threads"
    /\ UNCHANGED <<sessionVars, mapperVars, PFint_cache, PFint_invtable, history, bmVars>>

\* lines 34-42: the cache lookup; a hit returns the cached element, a miss
\* (KeyError) is followed by the range check and the new int object
CacheLookup(t) ==
    LET me == threads[t]
    IN  /\ me.at = "L34"
        /\ threads' = [threads EXCEPT ![t].at =
               IF me.p \in DOMAIN PFint_cache /\ me.n \in PFint_cache[me.p]
               THEN "L104" ELSE "L43"]
        /\ UNCHANGED <<pc, sessionVars, mapperVars, PFint_cache, PFint_invtable, history, bmVars>>

\* line 43: if p not in PFint.cache
TestSeen(t) ==
    LET me == threads[t]
    IN  /\ me.at = "L43"
        /\ threads' = [threads EXCEPT ![t].at =
               IF me.p \notin DOMAIN PFint_cache THEN "L44" ELSE "L50"]
        /\ UNCHANGED <<pc, sessionVars, mapperVars, PFint_cache, PFint_invtable, history, bmVars>>

\* line 44: PFint.cache[p] = {}
NewCache(t) ==
    LET me == threads[t]
    IN  /\ me.at = "L44"
        /\ PFint_cache' = DictSet(PFint_cache, me.p, {})
        /\ threads' = [threads EXCEPT ![t].at = "L46"]
        /\ UNCHANGED <<pc, sessionVars, mapperVars, PFint_invtable, history, bmVars>>

\* line 46: PFint.invtable[p] = map(lambda x: pow(x, p-2, p), range(0, p))
NewTable(t) ==
    LET me == threads[t]
    IN  /\ me.at = "L46"
        /\ PFint_invtable' = DictSet(PFint_invtable, me.p,
                                 [i \in 1..me.p |-> powmod(i - 1, me.p - 2, me.p)])
        /\ history' = [assigned |-> history.assigned + 1,
                       rewritten |-> history.rewritten
                                        \/ TableState(me.p) = "complete"]
        /\ threads' = [threads EXCEPT ![t].at = "L48"]
        /\ UNCHANGED <<pc, sessionVars, mapperVars, PFint_cache, bmVars>>

\* line 48: PFint.invtable[p][0] = None
ClearZero(t) ==
    LET me == threads[t]
    IN  /\ me.at = "L48"
        /\ PFint_invtable' = [PFint_invtable EXCEPT ![me.p][1] = None]
        /\ history' = [history EXCEPT !.rewritten = @ \/ TableState(me.p) = "complete"]
        /\ threads' = [threads EXCEPT ![t].at = "L50"]
        /\ UNCHANGED <<pc, sessionVars, mapperVars, PFint_cache, bmVars>>

\* lines 50-51: PFint.cache[p][n] = newval; return newval
Store(t) ==
    LET me == threads[t]
    IN  /\ me.at = "L50"
        /\ PFint_cache' = [PFint_cache EXCEPT ![me.p] = @ \cup {me.n}]
        /\ threads' = [threads EXCEPT ![t].at = "L104"]
        /\ UNCHANGED <<pc, sessionVars, mapperVars, PFint_invtable, history, bmVars>>

\* line 104: x.inverse(): PFint.invtable[self.p][self] is read (KeyError when
\* the table is not there) and handed to PFint, which caches the element it
\* returns (the cache of p is there: this thread has passed line 43)
Inverse(t) ==
    LET me == threads[t]
        v == PFint_invtable[me.p][me.n + 1]
    IN  /\ me.at = "L104"
        /\ threads' = [threads EXCEPT
               ![t].at = "done",
               ![t].saw = TableState(me.p),
               ![t].got = IF TableState(me.p) = "missing" THEN Raise("KeyError")
                          ELSE IF v = None THEN Ok(PFint_type)
                          ELSE PFint_new(me.p, v)]
        /\ PFint_cache' =
               IF TableState(me.p) = "missing" \/ v = None THEN PFint_cache
               ELSE [PFint_cache EXCEPT ![me.p] = @ \cup {v}]
        /\ UNCHANGED <<pc, sessionVars, mapperVars, PFint_invtable, history, bmVars>>

\* the primes the threads are handed
Primes == {p \in 0..MaxB : is_prime(p)}

NextCache ==
    \/ \E p \in Primes : \E n \in [Threads -> 0..(p - 1)] : Spawn(p, n)
    \/ \E t \in Threads : CacheLookup(t)
    \/ \E t \in Threads : TestSeen(t)
    \/ \E t \in Threads : NewCache(t)
    \/ \E t \in Threads : NewTable(t)
    \/ \E t \in Threads : ClearZero(t)
    \/ \E t \in Threads : Store(t)
    \/ \E t \in Threads : Inverse(t)

SpecCache == Init /\ [][NextCache]_vars

(***************************************************************************)
(* The alphabet mapper on its own: a str is decoded, and what decode       *)
(* returned is encoded again.                                              *)
(***************************************************************************)
\* the characters tried: alphabet characters (the first, the second, the
\* last), an equivalent character, and a character the mapper does not know
MapperChars == {"0", "1", "Z", "O", "?"}

\* d = Mapper.decode(s)
MapDecode(s) ==
    /\ pc = "start"
    /\ mapIn' = s
    /\ mapDecoded' = Mapper_decode(s)
    /\ pc' = "mapdecoded"
    /\ UNCHANGED <<sessionVars, cacheVars, mapEncoded, bmVars>>

\* Mapper.encode(d), for d the integer or the list decode returned
MapEncode ==
    /\ pc = "mapdecoded"
    /\ IsOk(mapDecoded)
    /\ mapEncoded' = IF mapDecoded.kind = "int"
                      THEN Mapper_encode_int(mapDecoded.val[1])
                      ELSE Mapper_encode(mapDecoded.val)
    /\ pc' = "mapencoded"
    /\ UNCHANGED <<sessionVars, cacheVars, mapIn, mapDecoded, bmVars>>

NextMapper ==
    \/ \E l \in 0..MaxLen : \E s \in [1..l -> MapperChars] : MapDecode(s)
    \/ MapEncode

SpecMapper == Init /\ [][NextMapper]_vars

(***************************************************************************)
(* _berlekamp_massey followed iteration by iteration.  It is handed the    *)
(* syndrome polynomial of a received word: S_l = R(a^l) at z^l for          *)
(* l = 1..n-k and zero at z^0.  Over all received words the syndromes take  *)
(* every value of GF(p)^(n-k) when a is primitive (a Vandermonde system     *)
(* with n >= n-k columns), so every such polynomial is tried.               *)
(***************************************************************************)
\* the syndrome polynomials of a code with n - k = m: Polynomial(reversed(s))
\* for every list s = [0, S_1, ..., S_m]
SyndromePolys(b, m) ==
    {PolyNorm(Reversed(<<0>> \o v)) : v \in [1..m -> 0..(b - 1)]}

\* sigma, omega = self._berlekamp_massey(s): entry, lines 290-296, for a code
\* with at least one message symbol
BMStart(s) ==
    /\ pc = "constructed"
    /\ IsOk(coder)
    /\ coder.val.k > 0
    /\ bmS' = s
    /\ bmL' = 0
    /\ bmPrev' = BMInit
    /\ bmCur' = BMInit
    /\ pc' = "bm"
    /\ UNCHANGED <<sessionVars, cacheVars, mapperVars>>

\* one iteration of the loop for l in xrange(0, n-k), lines 305-354
BMIterate ==
    /\ pc = "bm"
    /\ bmL < coder.val.n - coder.val.k
    /\ bmCur.exc = "ok"
    /\ bmPrev' = bmCur
    /\ bmCur' = BMStep(coder.val.b, bmS, bmCur, bmL)
    /\ bmL' = bmL + 1
    /\ UNCHANGED <<pc, sessionVars, cacheVars, mapperVars, bmS>>

NextBM ==
    \/ \E b \in 0..MaxB, n \in -1..MaxB, k \in -1..MaxB : New(b, n, k)
    \/ /\ pc = "constructed" /\ IsOk(coder)
       /\ \E s \in SyndromePolys(coder.val.b, coder.val.n - coder.val.k) :
              BMStart(s)
    \/ BMIterate

SpecBM == Init /\ [][NextBM]_vars

(***************************************************************************)
(* Reference notions the claims are stated with.                           *)
(***************************************************************************)
\* b is a prime number, by trial division
IsPrimeRef(b) == b > 1 /\ \A d \in 2..(b - 1) : b % d # 0

\* the arguments of RSCoder satisfy: b prime and 0 < k < n < b
ValidParams ==
    /\ IsPrimeRef(params[1])
    /\ 0 < params[3] /\ params[3] < params[2] /\ params[2] < params[1]

\* every symbol of the message is the character of a field value
ValidMessage ==
    \A i \in 1..Len(message) :
        conv_c2n(message[i]) >= 0 /\ conv_c2n(message[i]) < params[1]

\* the message as decode gives it back: whole, or without its leading padding
Expected(m, nostrip) == IF nostrip THEN m ELSE Mapper_strip(m)

\* a is a primitive element of GF(p): its powers a^0 .. a^(p-2) are exactly
\* the nonzero elements
Primitive(p, a) ==
    /\ a \in 1..(p - 1)
    /\ {powmod(a, e, p) : e \in 0..(p - 2)} = 1..(p - 1)

(***************************************************************************)
(* Claims about the codec, checked under Spec.                             *)
(***************************************************************************)
\* C1: for a valid code, a message of k symbols and at most s = (n-k) div 2
\* corrupted positions of its n-symbol codeword, decode returns the message.
\* (Stated as written; the code violates it.)
C1_CorrectionUpToS ==
    ( /\ pc = "decoded" /\ ValidParams /\ ValidMessage /\ encNostrip
      /\ Len(message) = coder.val.k
      /\ Cardinality(flips) <= CorrectionPower(coder.val) )
    => /\ IsOk(decoded)
       /\ decoded.val = Expected(message, decNostrip)

\* C2: round trip without errors: for a valid code (k = 1 included) and a
\* message of exactly k symbols, encode(m, nostrip=True) returns and decode
\* of it gives m back (without its leading padding under default stripping).
\* (Stated as written; the code violates it.)
C2_RoundTrip ==
    ( /\ pc \in {"encoded", "received", "verified", "decoded"}
      /\ ValidParams /\ ValidMessage /\ encNostrip
      /\ Len(message) = coder.val.k )
    => /\ IsOk(code)
       /\ (pc = "decoded" /\ flips = {})
             => (IsOk(decoded) /\ decoded.val = Expected(message, decNostrip))

\* C3: what encode returns for a message of at most k symbols, with either
\* value of nostrip, is accepted by verify.  (Stated as written; the code
\* violates it.)
C3_VerifyEncoded ==
    ( /\ pc \in {"verified", "decoded"} /\ ValidParams /\ ValidMessage
      /\ flips = {} )
    => (IsOk(verdict) /\ verdict.val)

\* C4: an n-symbol codeword with one symbol, at any position, changed to any
\* other field value is rejected by verify: verify returns False.
C4_SingleMutationRejected ==
    ( /\ pc \in {"verified", "decoded"} /\ encNostrip
      /\ Cardinality(flips) = 1 )
    => (IsOk(verdict) /\ ~verdict.val)

\* C4 witness: the leading symbol of a codeword of a valid code was changed
\* and verify returned False
C4_Witness ==
    /\ pc = "verified" /\ ValidParams /\ encNostrip
    /\ flips = {1} /\ Len(word) = coder.val.n
    /\ IsOk(verdict) /\ ~verdict.val

\* C5: decode(w, nostrip=True) of an n-symbol word returns, on the fast path
\* and on the correction path, a message of exactly k symbols, and never
\* raises.  (Stated as written; the code violates it.)
C5_DecodeReturnsKSymbols ==
    ( /\ pc = "decoded" /\ ValidParams /\ decNostrip
      /\ Len(word) = coder.val.n )
    => (IsOk(decoded) /\ Len(decoded.val) = coder.val.k)

\* C6: whatever encode returns for a message of at most k symbols has exactly
\* n symbols, with either value of nostrip.  (Stated as written; the code
\* violates it.)
C6_EncodeReturnsNSymbols ==
    (pc = "encoded" /\ ValidParams /\ IsOk(code))
    => Len(code.val) = coder.val.n

\* C7: RSCoder(p, n, k) raises exactly when p is not prime or 0 < k < n < p is
\* violated, and gives a codec otherwise.  (Stated as written; the code
\* violates it.)
C7_ConstructionValidates ==
    pc = "constructed" => (IsOk(coder) <=> ValidParams)

\* C8: the generator alpha chosen at construction is a primitive element of
\* GF(p), and the smallest one.  (Stated as written; the code violates it.)
C8_AlphaPrimitive ==
    (pc = "constructed" /\ ValidParams /\ IsOk(coder))
    => /\ Primitive(coder.val.b, coder.val.a)
       /\ \A g \in 1..(coder.val.a - 1) : ~Primitive(coder.val.b, g)

(***************************************************************************)
(* Claims about field arithmetic, checked under SpecField.                 *)
(***************************************************************************)
\* C9: the inverse of field-zero is an error: PFint(p, 0).inverse(), a
\* division by zero (by a PFint or by the integer 0) and a negative power of
\* zero raise and return no value.  (Stated as written; the code violates it.)
C9_InverseOfZeroRaises ==
    pc = "field" =>
        /\ (fop = "inverse" /\ fargs[2] = 0) => ~IsOk(fres)
        /\ (fop = "div" /\ fargs[3] = 0) => ~IsOk(fres)
        /\ (fop = "rdiv" /\ fargs[2] = 0) => ~IsOk(fres)
        /\ (fop = "pow" /\ fargs[2] = 0 /\ fargs[3] < 0) => ~IsOk(fres)

\* the reference value of a <op> i in GF(p) for 0 <= i < p, as a predicate
\* on the outcome r: division is by the defining equation of the quotient
RefBinary(op, p, a, i, r) ==
    CASE op = "add" -> IsOk(r) /\ r.val = (a + i) % p
      [] op = "sub" -> IsOk(r) /\ r.val = (a - i) % p
      [] op = "rsub" -> IsOk(r) /\ r.val = (i - a) % p
      [] op = "mul" -> IsOk(r) /\ r.val = (a * i) % p
      [] op = "div" -> IF i = 0 THEN ~IsOk(r)
                       ELSE IsOk(r) /\ r.val \in 0..(p - 1) /\ (r.val * i) % p = a
      [] op = "rdiv" -> IF a = 0 THEN ~IsOk(r)
                        ELSE IsOk(r) /\ r.val \in 0..(p - 1) /\ (r.val * a) % p = i

\* C10, as written: in a binary operation between a field element a and a
\* plain integer i, i is reduced modulo p first, for every i, i < 0 and
\* i >= p included: the result is that of the operation on a and i mod p.
C10_IntegerReduced ==
    (pc = "field" /\ fop \in BinaryOps /\ ~fargs[4])
    => RefBinary(fop, fargs[1], fargs[2], fargs[3] % fargs[1], fres)

\* C10, amended: the integer goes through the validating constructor
\* PFint(p, i): for 0 <= i < p the result is that of the operation on a and
\* i; for i < 0 or i >= p the operation raises ValueError.
C10_IntegerValidated ==
    (pc = "field" /\ fop \in BinaryOps /\ ~fargs[4])
    => IF fargs[3] < 0 \/ fargs[3] >= fargs[1]
       THEN fres.exc = "ValueError"
       ELSE RefBinary(fop, fargs[1], fargs[2], fargs[3], fres)

\* C10 witness: an integer i >= p was added to a field element and the
\* addition raised ValueError
C10_Witness ==
    /\ pc = "field" /\ fop = "add" /\ ~fargs[4]
    /\ fargs[3] >= fargs[1]
    /\ fres.exc = "ValueError"

\* the reference value of a ** e in GF(p), as a predicate on the outcome r:
\* a^e mod p for e >= 0 (the empty product is 1), and for e < 0 and a nonzero
\* the element whose product with a^(-e) is 1
RefPow(p, a, e, r) ==
    IF e >= 0
    THEN IsOk(r) /\ r.val = (IF e = 0 THEN 1 ELSE a ^ e) % p
    ELSE a # 0 => /\ IsOk(r) /\ r.val \in 0..(p - 1)
                  /\ (r.val * (a ^ (-e))) % p = 1

\* C11: for every prime p and all a, b in GF(p) (b nonzero for division and
\* inverse), a+b, a-b, a*b, a/b, -a, a**e for plain integers e and
\* b.inverse(), in the Fp-Fp, int-Fp and Fp-int forms with operand order
\* respected, equal the reference values modulo p and lie in [0, p); in
\* particular b * b.inverse() = 1 and a**(p-1) = 1 for a nonzero.
C11_FieldArithmetic ==
    pc = "field" =>
        LET p == fargs[1]
            a == fargs[2]
            o == fargs[3]
        IN  /\ ( /\ fop \in BinaryOps /\ o \in 0..(p - 1)
                 /\ fop = "div" => o # 0
                 /\ fop = "rdiv" => a # 0 )
               => /\ RefBinary(fop, p, a, o, fres)
                  /\ fres.val \in 0..(p - 1)
            /\ fop = "neg"
               => /\ IsOk(fres) /\ fres.val \in 0..(p - 1)
                  /\ (a + fres.val) % p = 0
            /\ (fop = "inverse" /\ a # 0)
               => /\ IsOk(fres) /\ fres.val \in 0..(p - 1)
                  /\ (a * fres.val) % p = 1
            /\ fop = "pow" => RefPow(p, a, o, fres)
            /\ (fop = "pow" /\ a # 0 /\ o = p - 1)
               => (IsOk(fres) /\ fres.val = 1)

\* C11 witness: in GF(7) an integer was divided by a field element (the
\* int-Fp form of division) and the quotient came back
C11_Witness ==
    /\ pc = "field" /\ fop = "rdiv" /\ ~fargs[4]
    /\ fargs[1] = 7 /\ fargs[2] = 3 /\ fargs[3] = 5
    /\ IsOk(fres) /\ fres.val = 4

(***************************************************************************)
(* Further claims about the codec, checked under Spec.                     *)
(***************************************************************************)
\* C12: encode rejects with an error every message of more than k symbols and
\* returns no partial codeword; a message of k or fewer symbols is never
\* rejected for its length (the length error, ValueError, is not raised for
\* it).
C12_LengthCheck ==
    (pc = "encoded" /\ ValidMessage)
    => IF Len(message) > coder.val.k
       THEN code.exc = "ValueError" /\ code.val = <<>>
       ELSE code.exc # "ValueError"

\* C12 witness: a message of k + 1 symbols was handed to a valid code and
\* rejected
C12_Witness ==
    /\ pc = "encoded" /\ ValidParams /\ ValidMessage
    /\ Len(message) = coder.val.k + 1
    /\ code.exc = "ValueError"

(***************************************************************************)
(* Claim about the shared tables of PFint, checked under SpecCache.        *)
(***************************************************************************)
\* C13: the process-wide element cache and inverse table are initialised with
\* compute-once semantics: under any interleaving of two threads that
\* construct elements of the same not-yet-seen prime p and call inverse(),
\* the tables for p are initialised exactly once, no thread observes a missing
\* or partially initialised inverse table, and after initialisation the
\* inverse table for p is never written again.  (Stated as written; the code
\* violates it.)
C13_ComputeOnce ==
    /\ history.assigned <= 1
    /\ ~history.rewritten
    /\ \A t \in Threads : threads[t].saw \in {"nothing", "complete"}
    /\ (\A t \in Threads : threads[t].at = "done") => history.assigned = 1

(***************************************************************************)
(* Claim about the alphabet mapper, checked under SpecMapper.              *)
(***************************************************************************)
\* the index of a character by the mapper's contract: its place in the
\* alphabet, an equivalent character taking the place of its target
RefIndex(c) ==
    IF \E i \in 1..Len(mapper_default_alphabet) : mapper_default_alphabet[i] = c
    THEN (CHOOSE i \in 1..Len(mapper_default_alphabet) :
              mapper_default_alphabet[i] = c) - 1
    ELSE IF c = "O" THEN 0
    ELSE 1

\* the characters of the alphabet, and those with an equivalence rule
AlphabetChars ==
    {mapper_default_alphabet[i] : i \in 1..Len(mapper_default_alphabet)}

\* C14: the mapper is a bijection on the alphabet: decode maps a str of L
\* alphabet symbols (equivalent symbols included) to a sequence of exactly L
\* integers, each symbol's index, for every L >= 0, L = 1 and L = 0
\* included; and encode(decode(s)) = s for every str s over the alphabet.
\* (Stated as written; the code violates it.)
C14_MapperBijection ==
    /\ ( /\ pc \in {"mapdecoded", "mapencoded"}
         /\ \A i \in 1..Len(mapIn) : mapIn[i] \in AlphabetChars \cup {"O", "I", "l"} )
       => /\ IsOk(mapDecoded)
          /\ mapDecoded.kind = "list"
          /\ Len(mapDecoded.val) = Len(mapIn)
          /\ \A i \in 1..Len(mapIn) : mapDecoded.val[i] = RefIndex(mapIn[i])
    /\ ( /\ pc = "mapencoded"
         /\ \A i \in 1..Len(mapIn) : mapIn[i] \in AlphabetChars )
       => (IsOk(mapEncoded) /\ mapEncoded.val = mapIn)

(***************************************************************************)
(* Claims about the iterations of Berlekamp-Massey, checked under SpecBM.  *)
(***************************************************************************)
\* C17: loop invariant of Berlekamp-Massey: for every syndrome polynomial S
\* and every iteration index l in 0..n-k, the polynomials stored at l satisfy
\* (1 + S(z)) * sigma_l(z) = omega_l(z) modulo z^(l+1), and B_l is 0 or 1,
\* 0 <= D_l <= l, deg(sigma_l) <= D_l.
C17_LoopInvariant ==
    (pc = "bm" /\ bmCur.exc = "ok") =>
        LET p == coder.val.b
            lhs == PolyMul(p, PolyAdd(p, <<1>>, bmS), bmCur.sigma)
        IN  /\ \A i \in 0..bmL :
                  get_coefficient(lhs, i) = get_coefficient(bmCur.omega, i)
            /\ bmCur.B \in {0, 1}
            /\ 0 <= bmCur.D /\ bmCur.D <= bmL
            /\ degree(bmCur.sigma) <= bmCur.D

\* C17 witness: after the last of four iterations, with a locator of degree 2
C17_Witness ==
    /\ pc = "bm" /\ bmCur.exc = "ok"
    /\ bmL = 4 /\ coder.val.n - coder.val.k = 4
    /\ degree(bmCur.sigma) = 2 /\ bmCur.D = 2

\* the rule table of the specification (4.6.2), read top to bottom
RuleTable(Delta, D, B, l) ==
    IF Delta = 0 \/ 2 * D > l + 1 THEN "A"
    ELSE IF Delta # 0 /\ 2 * D < l + 1 THEN "B"
    ELSE IF 2 * D = l + 1 /\ B = 0 THEN "A"
    ELSE IF 2 * D = l + 1 /\ B # 0 THEN "B"
    ELSE "none"

\* C18: in every iteration, for every reachable (Delta, D_l, B_l, l), exactly
\* one of Rule A and Rule B is applied, the one the rule table gives; the
\* final exception is never raised; and Rule B, which divides by Delta, is
\* applied only when Delta is nonzero.
C18_RuleChoice ==
    (pc = "bm" /\ bmL > 0) =>
        /\ bmCur.exc = "ok"
        /\ bmCur.rule \in {"A", "B"}
        /\ bmCur.rule = RuleTable(bmCur.Delta, bmPrev.D, bmPrev.B, bmL - 1)
        /\ bmCur.rule = "B" => bmCur.Delta # 0
        /\ bmCur.rule = "A" => (bmCur.D = bmPrev.D /\ bmCur.B = bmPrev.B)
        /\ bmCur.rule = "B" => /\ bmCur.D = bmL - bmPrev.D
                                /\ bmCur.B = 1 - bmPrev.B

\* C18 witness: Rule B was applied on the row 2 * D_l = l + 1 with B_l = 1
C18_Witness ==
    /\ pc = "bm" /\ bmL > 0
    /\ bmCur.rule = "B" /\ 2 * bmPrev.D = bmL /\ bmPrev.B = 1
    /\ bmCur.Delta # 0

(***************************************************************************)
(* Claims about the stages of decode, checked under Spec: what decode      *)
(* computed from the received word on its way to the result.               *)
(***************************************************************************)
\* r = Polynomial(self.PFint(x) for x in self.mapper.decode(r)), line 197
ReceivedPoly == PolyNorm(FieldSeq(coder.val.b, word).val)

\* sigma, omega = self._berlekamp_massey(self._syndromes(r)), lines 200-204
Locator == _berlekamp_massey(coder.val, _syndromes(coder.val, ReceivedPoly))

\* X, j = self._chien_search(sigma), line 210
Located ==
    LET bm == Locator
    IN  _chien_search(coder.val, bm.sigma)

\* decode has run on an n-symbol codeword of a valid code with e of its
\* symbols changed, 1 <= e <= s
ErrorsWithinPower ==
    /\ pc = "decoded" /\ ValidParams /\ encNostrip
    /\ flips # {}
    /\ Cardinality(flips) <= CorrectionPower(coder.val)

\* the position, 0 being the rightmost symbol, of the i-th symbol of the word
PositionOf(i) == coder.val.n - i

\* the error locator X = alpha^j of the i-th symbol of the word
LocatorOf(i) == powmod(coder.val.a, PositionOf(i), coder.val.b)

\* the error magnitude at the i-th symbol: received minus sent
MagnitudeOf(i) == (conv_c2n(word[i]) - conv_c2n(code.val[i])) % coder.val.b

\* C15: for a received word that differs from a codeword in e positions,
\* 1 <= e <= s, _chien_search applied to the Berlekamp-Massey locator returns
\* a list j that is exactly the set of corrupted positions (position 0, the
\* rightmost symbol, included when it is corrupted) and a list X aligned with
\* it, X[i] = alpha^(j[i]).  (Stated as written; the code violates it.)
C15_ChienFindsAll ==
    ErrorsWithinPower =>
        LET ch == Located
        IN  /\ ch.exc = "ok"
            /\ Len(ch.j) = Cardinality(flips)
            /\ {ch.j[x] : x \in 1..Len(ch.j)} = {PositionOf(i) : i \in flips}
            /\ Len(ch.X) = Len(ch.j)
            /\ \A x \in 1..Len(ch.j) :
                  ch.X[x] = powmod(coder.val.a, ch.j[x], coder.val.b)

\* the product of (1 - X_i z) over the symbols i of S, as a polynomial in z
RECURSIVE SigmaOf(_, _)
SigmaOf(p, S) ==
    IF S = {} THEN <<1>>
    ELSE LET i == CHOOSE i \in S : TRUE
         IN  PolyMul(p, <<(-LocatorOf(i)) % p, 1>>, SigmaOf(p, S \ {i}))

\* the product of (1 - X_i * y) over the symbols i of S, in GF(p)
RECURSIVE ForneyDenominator(_, _, _)
ForneyDenominator(p, S, y) ==
    IF S = {} THEN 1
    ELSE LET i == CHOOSE i \in S : TRUE
         IN  (((1 - LocatorOf(i) * y) % p) * ForneyDenominator(p, S \ {i}, y)) % p

\* the reciprocal of a nonzero x in GF(p)
Reciprocal(p, x) == CHOOSE y \in 1..(p - 1) : (x * y) % p = 1

\* C16: for a received word with e errors, 1 <= e <= s, at positions j_i with
\* magnitudes Y_i, _berlekamp_massey applied to its syndrome polynomial
\* returns sigma(z) = prod (1 - X_i z) with X_i = alpha^(j_i), and an omega for
\* which omega(X_l^-1) / prod_{i # l} (1 - X_i X_l^-1) equals Y_l.
C16_LocatorAndEvaluator ==
    ErrorsWithinPower =>
        LET p == coder.val.b
            bm == Locator
        IN  /\ bm.exc = "ok"
            /\ bm.sigma = SigmaOf(p, flips)
            /\ \A l \in flips :
                  LET y == Reciprocal(p, LocatorOf(l))
                      den == ForneyDenominator(p, flips \ {l}, y)
                  IN  /\ den # 0
                      /\ evaluate(p, bm.omega, y) = (MagnitudeOf(l) * den) % p

\* C16 witness: two symbols of a codeword of a code with s = 2 were changed
\* and the locator has degree 2
C16_Witness ==
    /\ ErrorsWithinPower
    /\ Cardinality(flips) = 2
    /\ LET bm == Locator
       IN  degree(bm.sigma) = 2 /\ bm.sigma = SigmaOf(coder.val.b, flips)

=============================================================================
